---------------------------- MODULE Spec2Model ----------------------------
(*
  Fixed-record library store and its borrow / return / ban policy, modelled
  from three program revisions:

    rev = "libsys"   src/libsys/system.py          (quantity-aware, 184-byte books)
    rev = "mono"     src/library_system.py         (single-copy, status flag)
    rev = "mod"      src/library_system/*.py       (modular managers + UI)

  Files are sequences of records in physical order.  Text is a sequence of
  byte values (ASCII codes); an id field is the 4 bytes written by
  encode_string.  A date is the day number of the ISO date the program
  writes; "" (no return date) is NoDate.
*)
EXTENDS Integers, Sequences, FiniteSets, TLC

\* ---------------------------------------------------------------- bounds
MaxBooks == 1
MaxMembers == 2
MaxBorrows == 2
MaxQty == 2
MaxBatch == 2

\* ------------------------------------------------------ program constants
IdWidth == 4
QtyWidth == 4
DueDays == 7
MaxPerBorrow == 3
MaxBorrowBooks == 10
NUL == 0
AsciiZero == 48
NoDate == -1

Revisions == {"libsys", "mono", "mod"}
\* the days on which the program is run: a first day, the next day, and the
\* first day on which a loan of the first day is overdue
RunDays == {0, 1, DueDays + 1}
Titles == {"t1"}
Authors == {"a1"}
Isbns == {"i1"}
Years == {"y1"}
Names == {"n1"}

\* books, members, borrows: the complete records of the three data files;
\* tail: the bytes of a short final chunk after them (0 in a well-formed file);
\* backup: the catalog backup file, <<>> while there is none;
\* procs: where each process running a create stands between reading the
\* next id and appending its record
VARIABLES rev, today, books, members, borrows, last, tail, backup, procs

vars == <<rev, today, books, members, borrows, last, tail, backup, procs>>

\* ------------------------------------------------------------ record codec
Min(a, b) == IF a < b THEN a ELSE b

RECURSIVE Digits(_)
Digits(n) == IF n < 10 THEN <<AsciiZero + n>>
             ELSE Append(Digits(n \div 10), AsciiZero + (n % 10))

RECURSIVE PadLeft(_, _)
PadLeft(s, w) == IF Len(s) >= w THEN s ELSE PadLeft(<<AsciiZero>> \o s, w)

\* f"{n:04d}"
Format04d(n) == PadLeft(Digits(n), IdWidth)

\* str(n)
Str(n) == Digits(n)

\* text.encode('utf-8')[:length].ljust(length, b'\x00')
EncodeString(text, length) ==
    [i \in 1..length |-> IF i <= Len(text) THEN text[i] ELSE NUL]

RECURSIVE DecodeString(_)
\* data.decode('utf-8').rstrip('\x00')
DecodeString(data) ==
    IF Len(data) = 0 THEN data
    ELSE IF data[Len(data)] = NUL THEN DecodeString(SubSeq(data, 1, Len(data) - 1))
    ELSE data

RECURSIVE ParseInt(_)
\* int(s) for a string of decimal digits
ParseInt(s) == IF Len(s) = 0 THEN 0
               ELSE 10 * ParseInt(SubSeq(s, 1, Len(s) - 1)) + (s[Len(s)] - AsciiZero)

\* int(decode(book[5])), falling back to 1 when the field holds no number
Quantity(book) ==
    LET s == DecodeString(book.quantity)
    IN IF Len(s) = 0 THEN 1 ELSE ParseInt(s)

\* ------------------------------------------------------------ file store
\* faulty variant: numbers the new record after the records still listed
GetNextIdCountLive(file) ==
    Format04d(Cardinality({i \in 1..Len(file) : file[i].deleted = "0"}) + 1)

\* _get_next_id / FileManager.get_next_id
GetNextId(file) ==
    IF Len(file) = 0 THEN Format04d(1)
    ELSE Format04d(ParseInt(DecodeString(file[Len(file)].id)) + 1)

\* faulty variant: the file ends after the record written
UpdateRecordTruncating(file, index, data) == Append(SubSeq(file, 1, index - 1), data)

\* _update_record / FileManager.update_record
UpdateRecord(file, index, data) == [file EXCEPT ![index] = data]

\* faulty variant: the deleted flag is not looked at
FindIndexByIdAnyFlag(file, id) ==
    LET hits == {i \in 1..Len(file) : DecodeString(file[i].id) = id}
    IN IF hits = {} THEN 0 ELSE CHOOSE i \in hits : \A j \in hits : i <= j

\* first position whose record has this id and is not deleted; 0 for -1
FindIndexById(file, id) ==
    LET hits == {i \in 1..Len(file) :
                    DecodeString(file[i].id) = id /\ file[i].deleted = "0"}
    IN IF hits = {} THEN 0 ELSE CHOOSE i \in hits : \A j \in hits : i <= j

\* ids a user can type: the ids of the records a file can hold
IdInputs(n) == {Format04d(k) : k \in 1..n}

\* ---------------------------------------------------------- policy engine
\* faulty variant: a loan counts as overdue on its due date already
IsOverdueOnDueDate(borrow, current_date) == (current_date - (borrow.borrow_date + DueDays)) >= 0

\* faulty variant: a loan counts as overdue one day too late
IsOverdueLate(borrow, current_date) == (current_date - (borrow.borrow_date + DueDays)) > 1

\* (current_date - (borrow_date + 7 days)).days > 0
IsOverdue(borrow, current_date) == (current_date - (borrow.borrow_date + DueDays)) > 0

\* faulty variant: the deleted flag of the loan is not looked at
IsOpenAnyFlag(borrow) == borrow.status = "B"

\* borrow[5] == b'B' and borrow[6] == b'0'
IsOpen(borrow) == borrow.status = "B" /\ borrow.deleted = "0"

RECURSIVE SweepFromAnyStatus(_, _, _, _, _)
\* faulty variant: the member's stored status is not looked at before the ban
SweepFromAnyStatus(i, ms, bs, current_date, banned) ==
    IF i > Len(bs) THEN [members |-> ms, banned |-> banned]
    ELSE
      LET borrow == bs[i]
          member_id == DecodeString(borrow.member_id)
          idx == FindIndexById(ms, member_id)
      IN IF IsOpen(borrow) /\ IsOverdue(borrow, current_date) /\ idx # 0
         THEN SweepFromAnyStatus(i + 1,
                        UpdateRecord(ms, idx, [ms[idx] EXCEPT !.status = "S"]),
                        bs, current_date, Append(banned, member_id))
         ELSE SweepFromAnyStatus(i + 1, ms, bs, current_date, banned)

RECURSIVE SweepFrom(_, _, _, _, _)
\* the loop of the sweep over the loans file, from position i on
SweepFrom(i, ms, bs, current_date, banned) ==
    IF i > Len(bs) THEN [members |-> ms, banned |-> banned]
    ELSE
      LET borrow == bs[i]
          member_id == DecodeString(borrow.member_id)
          idx == FindIndexById(ms, member_id)
      IN IF IsOpen(borrow) /\ IsOverdue(borrow, current_date)
            /\ idx # 0 /\ ms[idx].status = "A"
         THEN SweepFrom(i + 1,
                        UpdateRecord(ms, idx, [ms[idx] EXCEPT !.status = "S"]),
                        bs, current_date,
                        IF \E k \in 1..Len(banned) : banned[k] = member_id
                        THEN banned ELSE Append(banned, member_id))
         ELSE SweepFrom(i + 1, ms, bs, current_date, banned)

\* _check_and_ban_overdue_members / BorrowManager.check_and_ban_overdue_members
CheckAndBanOverdueMembers(ms, bs, current_date) == SweepFrom(1, ms, bs, current_date, <<>>)

\* _get_borrowed_quantity
GetBorrowedQuantity(bs, book_id) ==
    Cardinality({i \in 1..Len(bs) :
        IsOpen(bs[i]) /\ DecodeString(bs[i].book_id) = book_id})

RECURSIVE SelectSeq2(_, _, _)
SelectSeq2(s, i, keep) ==
    IF i > Len(s) THEN <<>>
    ELSE IF i \in keep THEN <<i>> \o SelectSeq2(s, i + 1, keep)
    ELSE SelectSeq2(s, i + 1, keep)

\* _get_available_books_for_borrow: positions of listed books, in file order
GetAvailableBooksForBorrow(bks, bs) ==
    SelectSeq2(bks, 1,
        {i \in 1..Len(bks) :
            bks[i].deleted = "0"
            /\ Quantity(bks[i]) - GetBorrowedQuantity(bs, DecodeString(bks[i].id)) > 0})

\* faulty variant: returned loans are listed too
GetMemberBorrowsAnyStatus(bs, member_id) ==
    SelectSeq2(bs, 1,
        {i \in 1..Len(bs) :
            bs[i].deleted = "0" /\ DecodeString(bs[i].member_id) = member_id})

\* _get_member_active_borrows: positions of the member's open loans, in file order
GetMemberActiveBorrows(bs, member_id) ==
    SelectSeq2(bs, 1,
        {i \in 1..Len(bs) :
            IsOpen(bs[i]) /\ DecodeString(bs[i].member_id) = member_id})

\* ------------------------------------------------------------- records
\* a book record of the 184-byte layout (libsys)
NewBook(id, title, quantity) ==
    [id |-> EncodeString(id, IdWidth), title |-> title,
     author |-> CHOOSE a \in Authors : TRUE,
     isbn |-> CHOOSE c \in Isbns : TRUE,
     year |-> CHOOSE y \in Years : TRUE,
     quantity |-> EncodeString(Str(quantity), QtyWidth),
     status |-> "A", deleted |-> "0"]

\* a book record of the 180-byte layout (mono, mod): no quantity field
NewBook7(id, title) ==
    [id |-> EncodeString(id, IdWidth), title |-> title,
     author |-> CHOOSE a \in Authors : TRUE,
     isbn |-> CHOOSE c \in Isbns : TRUE,
     year |-> CHOOSE y \in Years : TRUE,
     status |-> "A", deleted |-> "0"]

NewMember(id, name) ==
    [id |-> EncodeString(id, IdWidth), name |-> name,
     status |-> "A", deleted |-> "0"]

\* faulty variant: the two foreign ids are written in each other's field
NewBorrowSwapped(id, book_id, member_id, borrow_date) ==
    [id |-> EncodeString(id, IdWidth),
     book_id |-> EncodeString(member_id, IdWidth),
     member_id |-> EncodeString(book_id, IdWidth),
     borrow_date |-> borrow_date, return_date |-> NoDate,
     status |-> "B", deleted |-> "0"]

\* a loan record as add_borrow packs it
NewBorrow(id, book_id, member_id, borrow_date) ==
    [id |-> EncodeString(id, IdWidth),
     book_id |-> EncodeString(book_id, IdWidth),
     member_id |-> EncodeString(member_id, IdWidth),
     borrow_date |-> borrow_date, return_date |-> NoDate,
     status |-> "B", deleted |-> "0"]

Done(op, res, ret) == [op |-> op, res |-> res, ret |-> ret]

\* three files that end on a record boundary
NoTail == [books |-> 0, members |-> 0, borrows |-> 0]

\* the processes that can run on the same files
Writers == {1, 2}

\* no process is inside a create
NoWriter == [p \in Writers |-> [pc |-> "idle", member_id |-> <<>>, seen |-> 0]]

\* ------------------------------------------------------------------ Init
Init ==
    /\ rev \in Revisions
    /\ today = 0
    /\ books = <<>>
    /\ members = <<>>
    /\ borrows = <<>>
    /\ last = Done("init", "ok", <<>>)
    /\ tail = NoTail
    /\ backup = <<>>
    /\ procs = NoWriter

\* the calendar advances between operations (datetime.date.today())
Tick ==
    /\ \E d \in RunDays :
          /\ d > today
          /\ today' = d
    /\ last' = Done("tick", "ok", <<>>)
    /\ UNCHANGED <<procs, tail, backup, rev, books, members, borrows>>

\* the overdue sweep on its own: add_borrow left at its first prompt, or a
\* direct call of BorrowManager.check_and_ban_overdue_members; res tells a
\* sweep that directly follows a sweep ("again") from any other
Sweep ==
    LET swept == CheckAndBanOverdueMembers(members, borrows, today)
    IN /\ members' = swept.members
       /\ last' = Done("sweep", IF last.op = "sweep" THEN "again" ELSE "ok", swept.banned)
       /\ UNCHANGED <<procs, tail, backup, rev, today, books, borrows>>

\* ===================================================== libsys/system.py
\* add_book
AddBook ==
    /\ rev = "libsys"
    /\ Len(books) < MaxBooks
    /\ \E title \in Titles, quantity \in 1..MaxQty :
          /\ quantity >= 1 /\ quantity <= 9999
          /\ books' = Append(books, NewBook(GetNextId(books), title, quantity))
    /\ last' = Done("add_book", "ok", <<>>)
    /\ UNCHANGED <<procs, tail, backup, rev, today, members, borrows>>

\* update_book: rewrites title and quantity in place, keeps id, status, deleted
UpdateBookWith(book_id, title, quantity) ==
    LET book_index == FindIndexById(books, book_id)
    IN /\ rev = "libsys"
       /\ book_index # 0
       /\ quantity >= 1 /\ quantity <= 9999
       /\ books' = UpdateRecord(books, book_index,
                      [books[book_index] EXCEPT
                          !.title = title,
                          !.quantity = EncodeString(Str(quantity), QtyWidth)])
       /\ last' = Done("update_book", "ok", <<>>)
       /\ UNCHANGED <<procs, tail, backup, rev, today, members, borrows>>

UpdateBook ==
    \E book_id \in IdInputs(MaxBooks), title \in Titles, quantity \in 1..MaxQty :
        UpdateBookWith(book_id, title, quantity)

\* delete_book (all revisions: the deleted flag of the first live record with the id)
DeleteBookWith(book_id) ==
    LET book_index == FindIndexById(books, book_id)
    IN /\ book_index # 0
       /\ books' = UpdateRecord(books, book_index,
                                [books[book_index] EXCEPT !.deleted = "1"])
       /\ last' = Done("delete_book", "ok", <<>>)
       /\ UNCHANGED <<procs, tail, backup, rev, today, members, borrows>>

DeleteBook == \E book_id \in IdInputs(MaxBooks) : DeleteBookWith(book_id)

\* add_member (all revisions), while the file holds fewer than cap records
AddMemberUpTo(cap) ==
    /\ Len(members) < cap
    /\ \E name \in Names :
          members' = Append(members, NewMember(GetNextId(members), name))
    /\ last' = Done("add_member", "ok", <<>>)
    /\ UNCHANGED <<procs, tail, backup, rev, today, books, borrows>>

AddMember == AddMemberUpTo(MaxMembers)

\* update_member: rewrites the text fields, keeps id, join date, status, deleted
UpdateMemberWith(member_id, name) ==
    LET member_index == FindIndexById(members, member_id)
    IN /\ rev = "libsys"
       /\ member_index # 0
       /\ members' = UpdateRecord(members, member_index,
                                  [members[member_index] EXCEPT !.name = name])
       /\ last' = Done("update_member", "ok", <<>>)
       /\ UNCHANGED <<procs, tail, backup, rev, today, books, borrows>>

UpdateMember ==
    \E member_id \in IdInputs(MaxMembers), name \in Names :
        UpdateMemberWith(member_id, name)

\* delete_member (libsys, mono)
DeleteMemberWith(member_id) ==
    LET member_index == FindIndexById(members, member_id)
    IN /\ rev \in {"libsys", "mono"}
       /\ member_index # 0
       /\ members' = UpdateRecord(members, member_index,
                                  [members[member_index] EXCEPT !.deleted = "1"])
       /\ last' = Done("delete_member", "ok", <<>>)
       /\ UNCHANGED <<procs, tail, backup, rev, today, books, borrows>>

DeleteMember == \E member_id \in IdInputs(MaxMembers) : DeleteMemberWith(member_id)

RECURSIVE AppendBorrows(_, _, _, _, _)
\* the loop of add_borrow: one record per copy, each with the next id
AppendBorrows(bs, n, book_id, member_id, borrow_date) ==
    IF n = 0 THEN bs
    ELSE AppendBorrows(Append(bs, NewBorrow(GetNextId(bs), book_id, member_id, borrow_date)),
                       n - 1, book_id, member_id, borrow_date)

\* faulty variant: the number of copies is capped at 3 only, not at what is left
AddBorrowResultNoCap(ms, member_id, choice, borrow_quantity) ==
    LET member_index == FindIndexById(ms, member_id)
        available_books == GetAvailableBooksForBorrow(books, borrows)
        selected_book_id == DecodeString(books[available_books[choice]].id)
    IN IF member_index = 0 THEN [res |-> "no_member", borrows |-> borrows]
       ELSE IF ms[member_index].status = "S" THEN [res |-> "suspended", borrows |-> borrows]
       ELSE IF Len(available_books) = 0 THEN [res |-> "no_books", borrows |-> borrows]
       ELSE IF choice < 1 \/ choice > Len(available_books)
            THEN [res |-> "bad_choice", borrows |-> borrows]
       ELSE IF borrow_quantity < 1 \/ borrow_quantity > MaxPerBorrow
            THEN [res |-> "bad_quantity", borrows |-> borrows]
       ELSE [res |-> "ok",
             borrows |-> AppendBorrows(borrows, borrow_quantity, selected_book_id,
                                       member_id, today)]

\* the outcome of add_borrow after the sweep, for one set of answers
AddBorrowResult(ms, member_id, choice, borrow_quantity) ==
    LET member_index == FindIndexById(ms, member_id)
        available_books == GetAvailableBooksForBorrow(books, borrows)
        book == books[available_books[choice]]
        selected_book_id == DecodeString(book.id)
        available_quantity == Quantity(book) - GetBorrowedQuantity(borrows, selected_book_id)
        max_borrow == Min(MaxPerBorrow, available_quantity)
    IN IF member_index = 0 THEN [res |-> "no_member", borrows |-> borrows]
       ELSE IF ms[member_index].status = "S" THEN [res |-> "suspended", borrows |-> borrows]
       ELSE IF Len(available_books) = 0 THEN [res |-> "no_books", borrows |-> borrows]
       ELSE IF choice < 1 \/ choice > Len(available_books)
            THEN [res |-> "bad_choice", borrows |-> borrows]
       ELSE IF borrow_quantity < 1 \/ borrow_quantity > max_borrow
            THEN [res |-> "bad_quantity", borrows |-> borrows]
       ELSE [res |-> "ok",
             borrows |-> AppendBorrows(borrows, borrow_quantity, selected_book_id,
                                       member_id, today)]

\* add_borrow: the overdue sweep, then the checks, then one loan per copy
AddBorrowWith(member_id, choice, borrow_quantity) ==
    LET swept == CheckAndBanOverdueMembers(members, borrows, today)
        r == AddBorrowResult(swept.members, member_id, choice, borrow_quantity)
    IN /\ rev = "libsys"
       /\ Len(r.borrows) <= MaxBorrows
       /\ members' = swept.members
       /\ borrows' = r.borrows
       /\ last' = Done("add_borrow", r.res, swept.banned)
       /\ UNCHANGED <<procs, tail, backup, rev, today, books>>

AddBorrow ==
    \E member_id \in IdInputs(MaxMembers), choice \in 1..MaxBooks,
       borrow_quantity \in 1..MaxQty :
        AddBorrowWith(member_id, choice, borrow_quantity)

RECURSIVE GroupBookIds(_, _, _)
\* the keys of book_borrow_groups, in order of first appearance
GroupBookIds(bs, active, seen) ==
    IF Len(active) = 0 THEN seen
    ELSE LET book_id == DecodeString(bs[active[1]].book_id)
         IN GroupBookIds(bs, SubSeq(active, 2, Len(active)),
                IF \E k \in 1..Len(seen) : seen[k] = book_id
                THEN seen ELSE Append(seen, book_id))

\* the borrow list of one group: positions of the member's open loans of the book
GroupBorrowList(bs, active, book_id) ==
    SelectSeq2(bs, 1, {active[k] : k \in {j \in 1..Len(active) :
                            DecodeString(bs[active[j]].book_id) = book_id}})

RECURSIVE ReturnLoopWholeList(_, _, _, _)
\* faulty variant: every loan of the list is closed, whatever number was typed
ReturnLoopWholeList(bs, ids, return_count, return_date) ==
    IF Len(ids) = 0 THEN bs
    ELSE LET borrow_index == FindIndexById(bs, ids[1])
             updated == IF borrow_index = 0 THEN bs
                        ELSE UpdateRecord(bs, borrow_index,
                                [bs[borrow_index] EXCEPT !.return_date = return_date,
                                                         !.status = "R"])
         IN ReturnLoopWholeList(updated, SubSeq(ids, 2, Len(ids)), return_count, return_date)

RECURSIVE ReturnLoop(_, _, _, _)
\* the loop of return_book over the first return_count entries of the list
ReturnLoop(bs, ids, return_count, return_date) ==
    IF return_count = 0 THEN bs
    ELSE LET borrow_index == FindIndexById(bs, ids[1])
             updated == IF borrow_index = 0 THEN bs
                        ELSE UpdateRecord(bs, borrow_index,
                                [bs[borrow_index] EXCEPT !.return_date = return_date,
                                                         !.status = "R"])
         IN ReturnLoop(updated, SubSeq(ids, 2, Len(ids)), return_count - 1, return_date)

\* the reinstatement step at the end of return_book
Reinstate(ms, bs, member_id, member, return_date) ==
    LET remaining_borrows == GetMemberActiveBorrows(bs, member_id)
        has_overdue == \E k \in 1..Len(remaining_borrows) :
                          IsOverdue(bs[remaining_borrows[k]], return_date)
        member_index == FindIndexById(ms, member_id)
    IN IF ~has_overdue /\ member.status = "S" /\ member_index # 0
       THEN UpdateRecord(ms, member_index, [member EXCEPT !.status = "A"])
       ELSE ms

\* what can be typed at the "how many" prompt of return_book: 'all' or a number
ReturnChoices == [all : {TRUE}, count : {0}] \cup [all : {FALSE}, count : 1..MaxBorrows]

\* return_book reaches its write loop: member found, an open loan, valid answers
ReturnBookValid(member_id, choice, return_choice) ==
    LET active_borrows == GetMemberActiveBorrows(borrows, member_id)
        book_list == GroupBookIds(borrows, active_borrows, <<>>)
    IN /\ FindIndexById(members, member_id) # 0
       /\ Len(active_borrows) > 0
       /\ choice >= 1 /\ choice <= Len(book_list)
       /\ \/ return_choice.all
          \/ /\ return_choice.count >= 1
             /\ return_choice.count <=
                  Len(GroupBorrowList(borrows, active_borrows, book_list[choice]))

\* return_book for one set of valid answers: the loans and members it leaves
ReturnBookResult(member_id, choice, return_choice) ==
    LET member_index == FindIndexById(members, member_id)
        active_borrows == GetMemberActiveBorrows(borrows, member_id)
        book_list == GroupBookIds(borrows, active_borrows, <<>>)
        selected_borrow_list == GroupBorrowList(borrows, active_borrows, book_list[choice])
        return_count == IF return_choice.all THEN Len(selected_borrow_list)
                        ELSE return_choice.count
        ids == [k \in 1..Len(selected_borrow_list) |->
                    DecodeString(borrows[selected_borrow_list[k]].id)]
        bs == ReturnLoop(borrows, ids, return_count, today)
    IN [borrows |-> bs,
        members |-> Reinstate(members, bs, member_id, members[member_index], today)]

\* return_book: a run that ends at a "not found" or "invalid" message writes nothing
ReturnBookWith(member_id, choice, return_choice) ==
    /\ rev = "libsys"
    /\ ReturnBookValid(member_id, choice, return_choice)
    /\ LET r == ReturnBookResult(member_id, choice, return_choice)
       IN /\ members' = r.members
          /\ borrows' = r.borrows
    /\ last' = Done("return_book", "ok", <<>>)
    /\ UNCHANGED <<procs, tail, backup, rev, today, books>>

ReturnBook ==
    \E member_id \in IdInputs(MaxMembers), choice \in 1..MaxBooks,
       return_choice \in ReturnChoices :
        ReturnBookWith(member_id, choice, return_choice)

\* _update_book_status / BookManager.update_book_status
UpdateBookStatus(bks, book_id, status) ==
    LET book_index == FindIndexById(bks, book_id)
    IN IF book_index = 0 THEN bks
       ELSE UpdateRecord(bks, book_index, [bks[book_index] EXCEPT !.status = status])

\* faulty variant: deleting a loan also lifts the suspension of its member
\* when no overdue loan of theirs is left
DeleteBorrowWithReinstating(borrow_id) ==
    LET borrow_index == FindIndexById(borrows, borrow_id)
        borrow == borrows[borrow_index]
        bs == UpdateRecord(borrows, borrow_index, [borrow EXCEPT !.deleted = "1"])
        member_id == DecodeString(borrow.member_id)
        member_index == FindIndexById(members, member_id)
    IN /\ rev \in {"libsys", "mono"}
       /\ borrow_index # 0
       /\ books' = IF borrow.status = "B"
                   THEN UpdateBookStatus(books, DecodeString(borrow.book_id), "A")
                   ELSE books
       /\ borrows' = bs
       /\ members' = IF member_index = 0 THEN members
                     ELSE Reinstate(members, bs, member_id, members[member_index], today)
       /\ last' = Done("delete_borrow", "ok", <<>>)
       /\ UNCHANGED <<procs, tail, backup, rev, today>>

\* delete_borrow (libsys, mono)
DeleteBorrowWith(borrow_id) ==
    LET borrow_index == FindIndexById(borrows, borrow_id)
        borrow == borrows[borrow_index]
    IN /\ rev \in {"libsys", "mono"}
       /\ borrow_index # 0
       /\ books' = IF borrow.status = "B"
                   THEN UpdateBookStatus(books, DecodeString(borrow.book_id), "A")
                   ELSE books
       /\ borrows' = UpdateRecord(borrows, borrow_index, [borrow EXCEPT !.deleted = "1"])
       /\ last' = Done("delete_borrow", "ok", <<>>)
       /\ UNCHANGED <<procs, tail, backup, rev, today, members>>

DeleteBorrow == \E borrow_id \in IdInputs(MaxBorrows) : DeleteBorrowWith(borrow_id)

NextLibsys ==
    \/ Tick
    \/ Sweep
    \/ AddBook
    \/ UpdateBook
    \/ DeleteBook
    \/ AddMember
    \/ UpdateMember
    \/ DeleteMember
    \/ AddBorrow
    \/ ReturnBook
    \/ DeleteBorrow

\* ============================ library_system.py and library_system/*.py
\* add_book / BookManager.add_book: 180-byte layout, no quantity, no confirmation
AddBook7 ==
    /\ rev \in {"mono", "mod"}
    /\ Len(books) < MaxBooks
    /\ \E title \in Titles :
          books' = Append(books, NewBook7(GetNextId(books), title))
    /\ last' = Done("add_book", "ok", <<>>)
    /\ UNCHANGED <<procs, tail, backup, rev, today, members, borrows>>

\* what can be typed at the book prompts of one borrow request
BatchInputs == UNION {[1..n -> IdInputs(MaxBooks)] : n \in 1..MaxBatch}

RECURSIVE ResetStatus(_, _)
\* the rollback of a cancelled request: every book borrowed so far back to 'A'
ResetStatus(bks, borrowed_books) ==
    IF Len(borrowed_books) = 0 THEN bks
    ELSE ResetStatus(UpdateBookStatus(bks, borrowed_books[1], "A"),
                     SubSeq(borrowed_books, 2, Len(borrowed_books)))

RECURSIVE BorrowLoop(_, _, _, _, _, _)
\* the per-book loop of add_borrow / borrow_books_ui; answer is the reply to
\* "retry, skip or cancel" ('r' and 's' both go on to the next book)
BorrowLoop(bks, bs, book_ids, borrowed_books, member_id, answer) ==
    IF Len(book_ids) = 0
    THEN [books |-> bks, borrows |-> bs,
          res |-> IF Len(borrowed_books) = 0 THEN "none" ELSE "ok"]
    ELSE
      LET book_id == book_ids[1]
          rest == SubSeq(book_ids, 2, Len(book_ids))
          book_index == FindIndexById(bks, book_id)
      IN IF book_index = 0
         THEN IF answer = "c"
              THEN [books |-> bks, borrows |-> bs, res |-> "cancelled"]
              ELSE BorrowLoop(bks, bs, rest, borrowed_books, member_id, answer)
         ELSE IF bks[book_index].status # "A"
         THEN IF answer = "c"
              THEN [books |-> ResetStatus(bks, borrowed_books), borrows |-> bs,
                    res |-> "cancelled"]
              ELSE BorrowLoop(bks, bs, rest, borrowed_books, member_id, answer)
         ELSE IF \E k \in 1..Len(borrowed_books) : borrowed_books[k] = book_id
         THEN BorrowLoop(bks, bs, rest, borrowed_books, member_id, answer)
         ELSE BorrowLoop(UpdateBookStatus(bks, book_id, "B"),
                         Append(bs, NewBorrow(GetNextId(bs), book_id, member_id, today)),
                         rest, Append(borrowed_books, book_id), member_id, answer)

\* add_borrow of library_system.py / LibraryUI.borrow_books_ui: sweep, member
\* checks, then the loop
BorrowBooksResult(ms, member_id, book_ids, answer) ==
    LET member_index == FindIndexById(ms, member_id)
    IN IF member_index = 0
       THEN [books |-> books, borrows |-> borrows, res |-> "no_member"]
       ELSE IF ms[member_index].status = "S"
       THEN [books |-> books, borrows |-> borrows, res |-> "suspended"]
       ELSE BorrowLoop(books, borrows, book_ids, <<>>, member_id, answer)

MonoAddBorrowWith(member_id, book_ids, answer) ==
    LET swept == CheckAndBanOverdueMembers(members, borrows, today)
        r == BorrowBooksResult(swept.members, member_id, book_ids, answer)
    IN /\ rev = "mono"
       /\ Len(book_ids) >= 1 /\ Len(book_ids) <= MaxBorrowBooks
       /\ Len(r.borrows) <= MaxBorrows
       /\ members' = swept.members
       /\ books' = r.books
       /\ borrows' = r.borrows
       /\ last' = Done("add_borrow", r.res, swept.banned)
       /\ UNCHANGED <<procs, tail, backup, rev, today>>

MonoAddBorrow ==
    \E member_id \in IdInputs(MaxMembers), book_ids \in BatchInputs, answer \in {"s", "c"} :
        MonoAddBorrowWith(member_id, book_ids, answer)

\* LibraryUI.borrow_books_ui: the same loop with no cancel prompt
ModBorrowBooksUIWith(member_id, book_ids) ==
    LET swept == CheckAndBanOverdueMembers(members, borrows, today)
        r == BorrowBooksResult(swept.members, member_id, book_ids, "s")
    IN /\ rev = "mod"
       /\ Len(book_ids) >= 1 /\ Len(book_ids) <= MaxBorrowBooks
       /\ Len(r.borrows) <= MaxBorrows
       /\ members' = swept.members
       /\ books' = r.books
       /\ borrows' = r.borrows
       /\ last' = Done("add_borrow", r.res, swept.banned)
       /\ UNCHANGED <<procs, tail, backup, rev, today>>

ModBorrowBooksUI ==
    \E member_id \in IdInputs(MaxMembers), book_ids \in BatchInputs :
        ModBorrowBooksUIWith(member_id, book_ids)

\* BorrowManager.add_borrow called on its own with any two ids
ModAddBorrowWith(book_id, member_id) ==
    /\ rev = "mod"
    /\ Len(borrows) < MaxBorrows
    /\ borrows' = Append(borrows, NewBorrow(GetNextId(borrows), book_id, member_id, today))
    /\ books' = UpdateBookStatus(books, book_id, "B")
    /\ last' = Done("api_add_borrow", "ok", <<>>)
    /\ UNCHANGED <<procs, tail, backup, rev, today, members>>

ModAddBorrow ==
    \E book_id \in IdInputs(MaxBooks), member_id \in IdInputs(MaxMembers) :
        ModAddBorrowWith(book_id, member_id)

\* _find_active_borrow_by_book_id: first open loan of the book, 0 for None
FindActiveBorrowByBookId(bs, book_id) ==
    LET hits == {i \in 1..Len(bs) :
                    IsOpen(bs[i]) /\ DecodeString(bs[i].book_id) = book_id}
    IN IF hits = {} THEN 0 ELSE CHOOSE i \in hits : \A j \in hits : i <= j

\* return_book of library_system.py: the summary prints book[1] and member[1],
\* so a missing book or member raises before the reinstatement check
MonoReturnBookWith(book_id) ==
    LET borrow_index == FindActiveBorrowByBookId(borrows, book_id)
        borrow_data == borrows[borrow_index]
        bs == UpdateRecord(borrows, borrow_index,
                  [borrow_data EXCEPT !.return_date = today, !.status = "R"])
        bks == UpdateBookStatus(books, book_id, "A")
        member_id == DecodeString(borrow_data.member_id)
        member_index == FindIndexById(members, member_id)
        raised == FindIndexById(bks, book_id) = 0 \/ member_index = 0
    IN /\ rev = "mono"
       /\ borrow_index # 0
       /\ borrows' = bs
       /\ books' = bks
       /\ members' = IF raised THEN members
                     ELSE Reinstate(members, bs, member_id, members[member_index], today)
       /\ last' = Done("return_book", IF raised THEN "error" ELSE "ok", <<>>)
       /\ UNCHANGED <<procs, tail, backup, rev, today>>

MonoReturnBook == \E book_id \in IdInputs(MaxBooks) : MonoReturnBookWith(book_id)

\* BorrowManager.return_book: closes the loan and frees the book, nothing else
ModReturnBookWith(book_id) ==
    LET borrow_index == FindActiveBorrowByBookId(borrows, book_id)
    IN /\ rev = "mod"
       /\ borrow_index # 0
       /\ borrows' = UpdateRecord(borrows, borrow_index,
                        [borrows[borrow_index] EXCEPT !.return_date = today, !.status = "R"])
       /\ books' = UpdateBookStatus(books, book_id, "A")
       /\ last' = Done("return_book", "ok", <<>>)
       /\ UNCHANGED <<procs, tail, backup, rev, today, members>>

ModReturnBook == \E book_id \in IdInputs(MaxBooks) : ModReturnBookWith(book_id)

NextMono ==
    \/ Tick
    \/ Sweep
    \/ AddBook7
    \/ DeleteBook
    \/ AddMember
    \/ DeleteMember
    \/ MonoAddBorrow
    \/ MonoReturnBook
    \/ DeleteBorrow

NextMod ==
    \/ Tick
    \/ Sweep
    \/ AddBook7
    \/ DeleteBook
    \/ AddMember
    \/ ModBorrowBooksUI
    \/ ModAddBorrow
    \/ ModReturnBook

Next ==
    \/ Tick
    \/ Sweep
    \/ AddBook
    \/ AddBook7
    \/ UpdateBook
    \/ DeleteBook
    \/ AddMember
    \/ UpdateMember
    \/ DeleteMember
    \/ AddBorrow
    \/ ReturnBook
    \/ DeleteBorrow
    \/ MonoAddBorrow
    \/ MonoReturnBook
    \/ ModBorrowBooksUI
    \/ ModAddBorrow
    \/ ModReturnBook

Spec == Init /\ [][Next]_vars

\* the libsys revision on its own
InitLibsys == Init /\ rev = "libsys"

SpecLibsys == InitLibsys /\ [][NextLibsys]_vars

\* borrow and return only: the catalog is filled and then left alone, and no
\* loan record is deleted
NextBorrowReturn ==
    \/ Tick
    \/ Sweep
    \/ AddBook
    \/ AddMember
    \/ UpdateMember
    \/ DeleteMember
    \/ AddBorrow
    \/ ReturnBook

SpecBorrowReturn == InitLibsys /\ [][NextBorrowReturn]_vars

\* ================================================================ properties
\* the id of the n-th record, written out digit by digit
PaddedId(n) ==
    <<48 + ((n \div 1000) % 10), 48 + ((n \div 100) % 10),
      48 + ((n \div 10) % 10), 48 + (n % 10)>>

\* a loan that is not deleted and not returned
OpenLoan(b) == b.status = "B" /\ b.deleted = "0"

\* the positions of the open loans of the item with this id field
OpenLoansOf(bs, book_id) ==
    {i \in 1..Len(bs) : OpenLoan(bs[i]) /\ bs[i].book_id = book_id}

\* the member with this id field holds an open loan whose due date is before day
HoldsOverdue(bs, member_id, day) ==
    \E i \in 1..Len(bs) :
        /\ OpenLoan(bs[i])
        /\ bs[i].member_id = member_id
        /\ bs[i].borrow_date + DueDays < day

\* the positions of the members still listed under this id
LiveMembers(ms, member_id) ==
    {k \in 1..Len(ms) : ms[k].id = member_id /\ ms[k].deleted = "0"}

\* the positions of the items still listed under this id
LiveBooks(bks, book_id) ==
    {k \in 1..Len(bks) : bks[k].id = book_id /\ bks[k].deleted = "0"}

\* the elements of a sequence
Range(s) == {s[k] : k \in 1..Len(s)}

\* C1: in libsys, while an item is only borrowed and returned, its available
\* count (quantity minus its open non-deleted loans) stays between 0 and its
\* quantity.
C1_AvailableWithinQuantity ==
    \A i \in 1..Len(books) :
        books[i].deleted = "0" =>
            LET available == Quantity(books[i])
                               - Cardinality(OpenLoansOf(borrows, books[i].id))
            IN available >= 0 /\ available <= Quantity(books[i])

\* C1 witness: every copy of a two-copy item is out after a successful borrow
C1_AllCopiesOut ==
    /\ last.op = "add_borrow" /\ last.res = "ok"
    /\ \E i \in 1..Len(books) :
          /\ books[i].deleted = "0"
          /\ Quantity(books[i]) = 2
          /\ Cardinality(OpenLoansOf(borrows, books[i].id)) = 2

\* C2: under every catalog and loan operation of libsys, the open non-deleted
\* loans of a non-deleted item never exceed its quantity.
C2_LoansWithinQuantity ==
    \A i \in 1..Len(books) :
        (rev = "libsys" /\ books[i].deleted = "0") =>
            Cardinality(OpenLoansOf(borrows, books[i].id)) <= Quantity(books[i])

\* C3: a borrow appends no loan when the member is missing, soft-deleted or
\* SUSPENDED, or when the item is missing, soft-deleted or has no copy left;
\* for add_borrow of libsys and for BorrowManager.add_borrow with any two ids.
C3_RejectedBorrowAppendsNothing ==
    [][ /\ (last'.op = "add_borrow" /\ rev = "libsys") =>
              \A member_id \in IdInputs(MaxMembers) :
                  ( /\ \E choice \in 1..MaxBooks, borrow_quantity \in 1..MaxQty :
                          AddBorrowWith(member_id, choice, borrow_quantity)
                    /\ \/ LiveMembers(members, member_id) = {}
                       \/ \E k \in LiveMembers(members, member_id) :
                              members[k].status = "S"
                       \/ \A i \in 1..Len(books) :
                              \/ books[i].deleted = "1"
                              \/ Quantity(books[i])
                                   <= Cardinality(OpenLoansOf(borrows, books[i].id)) )
                  => borrows' = borrows
        /\ last'.op = "api_add_borrow" =>
              \A book_id \in IdInputs(MaxBooks), member_id \in IdInputs(MaxMembers) :
                  ( /\ ModAddBorrowWith(book_id, member_id)
                    /\ \/ LiveMembers(members, member_id) = {}
                       \/ \E k \in LiveMembers(members, member_id) :
                              members[k].status = "S"
                       \/ LiveBooks(books, book_id) = {}
                       \/ OpenLoansOf(borrows, book_id) # {} )
                  => borrows' = borrows
      ]_vars

\* C4: a borrow attempt by a member who holds a non-deleted OPEN loan with
\* borrow_date + 7 days before today creates no loan, whatever the member's
\* stored status was; the member borrows again only once no such loan is left.
C4_OverdueMemberCannotBorrow ==
    [][ last'.op = "add_borrow" =>
          \A member_id \in IdInputs(MaxMembers) :
              ( /\ HoldsOverdue(borrows, member_id, today)
                /\ \/ \E choice \in 1..MaxBooks, borrow_quantity \in 1..MaxQty :
                          AddBorrowWith(member_id, choice, borrow_quantity)
                   \/ \E book_ids \in BatchInputs, answer \in {"s", "c"} :
                          MonoAddBorrowWith(member_id, book_ids, answer)
                   \/ \E book_ids \in BatchInputs :
                          ModBorrowBooksUIWith(member_id, book_ids) )
              => borrows' = borrows
      ]_vars

\* C4 witness: a borrow attempt was refused as suspended, and every suspended
\* member was suspended by the sweep of that very attempt
C4_RefusedWhileStoredActive ==
    /\ last.op = "add_borrow" /\ last.res = "suspended"
    /\ last.ret # <<>>
    /\ \A k \in 1..Len(members) :
          members[k].status = "S" => DecodeString(members[k].id) \in Range(last.ret)

\* C5: in each revision's return, when a loan of a SUSPENDED member is
\* returned, the member is ACTIVE afterwards exactly when no non-deleted OPEN
\* overdue loan of theirs remains.
C5_ReinstatedIffNoOverdueLeft ==
    [][ last'.op = "return_book" =>
          \A i \in 1..Len(borrows) :
              (borrows[i].status = "B" /\ borrows'[i].status = "R") =>
                  \A k \in LiveMembers(members, borrows[i].member_id) :
                      members[k].status = "S" =>
                          (members'[k].status = "A"
                             <=> ~HoldsOverdue(borrows', members[k].id, today'))
      ]_vars

\* C6: in libsys, right after a completed borrow attempt or return involving a
\* non-deleted member, the member is SUSPENDED exactly when they hold a
\* non-deleted OPEN overdue loan.
C6_StatusFreshAfterBorrowOrReturn ==
    [][ (rev = "libsys" /\ last'.op \in {"add_borrow", "return_book"}) =>
          \A member_id \in IdInputs(MaxMembers) :
              ( \/ \E choice \in 1..MaxBooks, borrow_quantity \in 1..MaxQty :
                       AddBorrowWith(member_id, choice, borrow_quantity)
                \/ \E choice \in 1..MaxBooks, return_choice \in ReturnChoices :
                       ReturnBookWith(member_id, choice, return_choice) )
              => \A k \in LiveMembers(members', member_id) :
                     members'[k].status = "S"
                        <=> HoldsOverdue(borrows', member_id, today')
      ]_vars


\* C7: the sweep returns exactly the ids of the members it changed from ACTIVE
\* to SUSPENDED, each once; afterwards every non-deleted member holding a
\* non-deleted OPEN overdue loan is SUSPENDED; and only such loans make it
\* suspend anyone (deleted and RETURNED loans never do).
C7_SweepBansExactlyOverdueActive ==
    [][ last'.op \in {"sweep", "add_borrow"} =>
          LET banned_list == last'.ret
              changed == {k \in 1..Len(members) :
                             members[k].status = "A" /\ members'[k].status = "S"}
          IN /\ Len(members') = Len(members)
             /\ Range(banned_list) = {DecodeString(members[k].id) : k \in changed}
             /\ \A i, j \in 1..Len(banned_list) :
                    banned_list[i] = banned_list[j] => i = j
             /\ \A k \in 1..Len(members') :
                    (members'[k].deleted = "0"
                       /\ HoldsOverdue(borrows', members'[k].id, today'))
                    => members'[k].status = "S"
             /\ \A k \in changed :
                    members[k].deleted = "0"
                       /\ HoldsOverdue(borrows, members[k].id, today)
      ]_vars

\* C7 witness: a sweep has suspended a member while another member, whose only
\* overdue loan is soft-deleted, is still ACTIVE
C7_SweepSkipsDeletedLoan ==
    /\ last.op = "sweep" /\ last.ret # <<>>
    /\ \E i \in 1..Len(borrows) :
          /\ borrows[i].deleted = "1" /\ borrows[i].status = "B"
          /\ borrows[i].borrow_date + DueDays < today
          /\ \E k \in LiveMembers(members, borrows[i].member_id) :
                 members[k].status = "A"

\* C8: a second sweep with no operation in between and the same date returns
\* the empty list and leaves the member, loan and catalog files unchanged.
C8_SweepIdempotent ==
    [][ (last.op = "sweep" /\ last'.op = "sweep") =>
          /\ last'.ret = <<>>
          /\ members' = members
          /\ borrows' = borrows
          /\ books' = books
      ]_vars

\* C8 witness: a sweep run directly after a sweep, with nothing left to do while
\* a SUSPENDED member still holds an overdue open loan
C8_SweepFoundAllSuspended ==
    /\ last.op = "sweep" /\ last.res = "again" /\ last.ret = <<>>
    /\ \E k \in 1..Len(members) :
          /\ members[k].deleted = "0" /\ members[k].status = "S"
          /\ HoldsOverdue(borrows, members[k].id, today)

\* C9: a loan's status changes only from OPEN to RETURNED and only in a return;
\* a RETURNED loan keeps its status and its return date under borrow, return,
\* sweep and delete_borrow.
C9_LoanStatusOneWay ==
    [][ \A i \in 1..Len(borrows) :
          /\ i <= Len(borrows')
          /\ borrows[i].status = "R" =>
                /\ borrows'[i].status = "R"
                /\ borrows'[i].return_date = borrows[i].return_date
          /\ borrows'[i].status # borrows[i].status =>
                /\ borrows[i].status = "B"
                /\ borrows'[i].status = "R"
                /\ last'.op = "return_book"
      ]_vars

\* C9 witness: a loan returned on an earlier day is still RETURNED with that
\* date after a later borrow, return, sweep or delete_borrow
C9_ReturnedLoanKept ==
    /\ last.op \in {"add_borrow", "api_add_borrow", "return_book", "sweep", "delete_borrow"}
    /\ \E i \in 1..Len(borrows) :
          /\ borrows[i].status = "R"
          /\ borrows[i].return_date # NoDate
          /\ borrows[i].return_date < today

\* C10: starting from empty files, the record at the n-th physical position
\* carries the id n written as four zero-padded digits, whatever has been
\* soft-deleted or updated in place since.
C10_IdIsPosition ==
    /\ \A i \in 1..Len(books) : books[i].id = PaddedId(i)
    /\ \A i \in 1..Len(members) : members[i].id = PaddedId(i)
    /\ \A i \in 1..Len(borrows) : borrows[i].id = PaddedId(i)

\* C10 witness: a member created after the first member was soft-deleted, and a
\* loans file whose first record was updated in place before the second was added
C10_CreatedAfterDelete ==
    /\ Len(members) = 2
    /\ members[1].deleted = "1"
    /\ last.op = "add_member"
    /\ Len(borrows) = 2
    /\ borrows[1].status = "R"
    /\ borrows[2].borrow_date > borrows[1].return_date

\* the items a member can pick from: not deleted, at least one copy left
Eligible(bks, bs) ==
    {i \in 1..Len(bks) :
        /\ bks[i].deleted = "0"
        /\ Quantity(bks[i]) - Cardinality(OpenLoansOf(bs, bks[i].id)) >= 1}

\* C18: a successful borrow leaves the catalog file unchanged, in libsys
\* add_borrow, in library_system.py add_borrow and in BorrowManager.add_borrow.
C18_BorrowLeavesCatalog ==
    [][ (last'.op \in {"add_borrow", "api_add_borrow"}
           /\ Len(borrows') > Len(borrows))
        => books' = books
      ]_vars

\* C19: in libsys, when a non-deleted ACTIVE member with no overdue loan
\* borrows one copy of a non-deleted item with a copy left, exactly one loan is
\* appended: next loan id, that item and member, borrow_date today, no return
\* date, OPEN, not deleted; once no copy is left the borrow appends nothing.
C19_SingleCopyBorrowAppendsOneLoan ==
    [][ (rev = "libsys" /\ last'.op = "add_borrow") =>
          \A member_id \in IdInputs(MaxMembers), choice \in 1..MaxBooks :
              AddBorrowWith(member_id, choice, 1) =>
                  LET eligible == Eligible(books, borrows)
                      good_member ==
                          /\ \E k \in LiveMembers(members, member_id) :
                                 members[k].status = "A"
                          /\ ~HoldsOverdue(borrows, member_id, today)
                  IN /\ (good_member /\ choice <= Cardinality(eligible)) =>
                            \E i \in eligible :
                                /\ Cardinality({j \in eligible : j <= i}) = choice
                                /\ borrows' = Append(borrows,
                                      [id |-> PaddedId(Len(borrows) + 1),
                                       book_id |-> books[i].id,
                                       member_id |-> member_id,
                                       borrow_date |-> today,
                                       return_date |-> NoDate,
                                       status |-> "B",
                                       deleted |-> "0"])
                     /\ eligible = {} => borrows' = borrows
      ]_vars

\* C19 witness: the two copies of an item went to members 0001 and 0002 as
\* loans 0001 and 0002, and a third borrow found no copy left
C19_ThirdBorrowRefused ==
    /\ rev = "libsys"
    /\ last.op = "add_borrow" /\ last.res = "no_books"
    /\ Len(books) = 1 /\ books[1].deleted = "0" /\ Quantity(books[1]) = 2
    /\ Len(borrows) = 2
    /\ \A i \in 1..2 :
          /\ OpenLoan(borrows[i])
          /\ borrows[i].id = PaddedId(i)
          /\ borrows[i].member_id = PaddedId(i)
          /\ borrows[i].book_id = books[1].id

\* C20: in library_system.py and libsys, returning an OPEN loan whose item or
\* member record is soft-deleted completes like any return: the loan is
\* RETURNED with return_date today and the member's reinstatement check is
\* still applied.
C20_ReturnWithDeletedRecordCompletes ==
    [][ (rev \in {"libsys", "mono"} /\ last'.op = "return_book") =>
          \A i \in 1..Len(borrows) :
              ( /\ borrows[i].status = "B" /\ borrows'[i].status = "R"
                /\ \/ LiveBooks(books, borrows[i].book_id) = {}
                   \/ LiveMembers(members, borrows[i].member_id) = {} )
              => /\ borrows'[i].return_date = today
                 /\ \A k \in LiveMembers(members, borrows[i].member_id) :
                        members[k].status = "S" =>
                            (members'[k].status = "A"
                               <=> ~HoldsOverdue(borrows', members[k].id, today))
      ]_vars

\* ------------------------------------------- a members file about to run out of ids
\* the largest number the id field can hold
IdLimit == 10^IdWidth - 1

\* the id field the record after IdLimit gets: the first IdWidth bytes of its number
WrappedId == DecodeString(EncodeString(Format04d(IdLimit + 1), IdWidth))

\* file sizes from which the id field runs out within MaxMembers creates
NearFull == (IdLimit - MaxMembers)..IdLimit

\* a members file of n records made by n add_member calls, with the record
\* whose id is WrappedId soft-deleted or not
InitNearFull ==
    /\ rev \in Revisions
    /\ today = 0
    /\ books = <<>>
    /\ borrows = <<>>
    /\ \E n \in NearFull, gone \in {"0", "1"} :
          members = [i \in 1..n |->
                        [NewMember(Format04d(i), "n1") EXCEPT
                            !.deleted = IF Format04d(i) = WrappedId THEN gone ELSE "0"]]
    /\ last = Done("init", "ok", <<>>)
    /\ tail = NoTail
    /\ backup = <<>>
    /\ procs = NoWriter

NextIdOverflow ==
    \/ Tick
    \/ AddMemberUpTo(IdLimit + MaxMembers)
    \/ DeleteMemberWith(WrappedId)
    \/ Sweep

SpecIdOverflow == InitNearFull /\ [][NextIdOverflow]_vars

\* C11: no record appended to a file carries a stored id that a record of the
\* file already carries, also for the creates after the record with id 9999.
C11_StoredIdsNeverRepeat ==
    [][ /\ \A j \in (Len(members) + 1)..Len(members') :
              \A i \in 1..Len(members) : members'[j].id # members[i].id
        /\ \A j \in (Len(books) + 1)..Len(books') :
              \A i \in 1..Len(books) : books'[j].id # books[i].id
        /\ \A j \in (Len(borrows) + 1)..Len(borrows') :
              \A i \in 1..Len(borrows) : borrows'[j].id # borrows[i].id
      ]_vars

\* C12: once a catalog item or member is soft-deleted, a lookup of its id finds
\* nothing in every later state, and no later delete or status update touches
\* the deleted record.
C12_DeletedIdStaysAbsent ==
    [][ /\ \A i \in 1..Len(members) :
              members[i].deleted = "1" =>
                  /\ members'[i] = members[i]
                  /\ FindIndexById(members', DecodeString(members[i].id)) = 0
        /\ \A i \in 1..Len(books) :
              books[i].deleted = "1" =>
                  /\ books'[i] = books[i]
                  /\ FindIndexById(books', DecodeString(books[i].id)) = 0
      ]_vars

\* ------------------------------------------------- record layouts on disk
\* the field widths of '4s100s50s20s4s4s1s1s', the catalog record
BookFormat == <<IdWidth, 100, 50, 20, 4, QtyWidth, 1, 1>>

\* the field widths of '4s100s50s20s4s1s1s', the catalog record before the
\* quantity field was added
OldBookFormat == <<IdWidth, 100, 50, 20, 4, 1, 1>>

\* the field widths of '4s50s50s15s10s1s1s'
MemberFormat == <<IdWidth, 50, 50, 15, 10, 1, 1>>

\* the field widths of '4s4s4s10s10s1s1s'
BorrowFormat == <<IdWidth, IdWidth, IdWidth, 10, 10, 1, 1>>

RECURSIVE CalcSize(_)
\* struct.calcsize of a format made of byte strings
CalcSize(format) ==
    IF Len(format) = 0 THEN 0
    ELSE format[1] + CalcSize(SubSeq(format, 2, Len(format)))

book_size == CalcSize(BookFormat)
old_book_size == CalcSize(OldBookFormat)
member_size == CalcSize(MemberFormat)
borrow_size == CalcSize(BorrowFormat)

\* a catalog record written without the quantity field
IsOldBook(book) == "quantity" \notin DOMAIN book

\* the bytes one stored catalog record takes
StoredSize(book) == IF IsOldBook(book) THEN old_book_size ELSE book_size

\* os.path.getsize / len(f.read()) of a catalog of whole records followed
\* by tail_bytes bytes of a cut-off record
CatalogSize(recs, tail_bytes) ==
    (IF Len(recs) = 0 THEN 0 ELSE Len(recs) * StoredSize(recs[1])) + tail_bytes

\* ------------------------------------------------------------- migration
\* struct.pack(book_format, id, title, author, isbn, year, "1", status, deleted)
MigrateRecord(old_book) ==
    [id |-> old_book.id, title |-> old_book.title, author |-> old_book.author,
     isbn |-> old_book.isbn, year |-> old_book.year,
     quantity |-> EncodeString(Str(1), QtyWidth),
     status |-> old_book.status, deleted |-> old_book.deleted]

\* the whole old_book_size chunks of the file, each repacked
MigrateRecords(recs) == [i \in 1..Len(recs) |-> MigrateRecord(recs[i])]

\* faulty variant: the backup is written before the file is sized up
MigrateResultBackupFirst(recs, tail_bytes, bk) ==
    LET size == CatalogSize(recs, tail_bytes)
        copy == <<[recs |-> recs, tail |-> tail_bytes]>>
    IN IF size = 0
       THEN [books |-> recs, tail |-> tail_bytes, backup |-> bk, res |-> "empty"]
       ELSE IF size % book_size = 0
       THEN [books |-> recs, tail |-> tail_bytes, backup |-> copy, res |-> "current"]
       ELSE IF size % old_book_size # 0
       THEN [books |-> recs, tail |-> tail_bytes, backup |-> copy, res |-> "warning"]
       ELSE [books |-> MigrateRecords(recs), tail |-> 0, backup |-> copy,
             res |-> "migrated"]

\* faulty variant: a size that fits neither layout is converted all the same
MigrateResultAnySize(recs, tail_bytes, bk) ==
    LET size == CatalogSize(recs, tail_bytes)
    IN IF size = 0
       THEN [books |-> recs, tail |-> tail_bytes, backup |-> bk, res |-> "empty"]
       ELSE IF size % book_size = 0
       THEN [books |-> recs, tail |-> tail_bytes, backup |-> bk, res |-> "current"]
       ELSE [books |-> MigrateRecords(recs), tail |-> 0,
             backup |-> <<[recs |-> recs, tail |-> tail_bytes]>>,
             res |-> "migrated"]

\* _migrate_old_data on a catalog of whole records recs followed by
\* tail_bytes bytes, beside the backup file bk
MigrateResult(recs, tail_bytes, bk) ==
    LET size == CatalogSize(recs, tail_bytes)
    IN IF size = 0
       THEN [books |-> recs, tail |-> tail_bytes, backup |-> bk, res |-> "empty"]
       ELSE IF size % book_size = 0
       THEN [books |-> recs, tail |-> tail_bytes, backup |-> bk, res |-> "current"]
       ELSE IF size % old_book_size # 0
       THEN [books |-> recs, tail |-> tail_bytes, backup |-> bk, res |-> "warning"]
       ELSE [books |-> MigrateRecords(recs), tail |-> 0,
             backup |-> <<[recs |-> recs, tail |-> tail_bytes]>>,
             res |-> "migrated"]

\* a catalog in the current layout whose cut-off tail makes its length a
\* multiple of old_book_size: the converter would cut it into chunks that are
\* not its records
Misframed(recs, tail_bytes) ==
    /\ Len(recs) > 0
    /\ ~IsOldBook(recs[1])
    /\ CatalogSize(recs, tail_bytes) % book_size # 0
    /\ CatalogSize(recs, tail_bytes) % old_book_size = 0

\* LibrarySystem.__init__: the program is started on the files as they are
MigrateOldData ==
    /\ rev = "libsys"
    /\ ~Misframed(books, tail.books)
    /\ LET m == MigrateResult(books, tail.books, backup)
       IN /\ books' = m.books
          /\ tail' = [tail EXCEPT !.books = m.tail]
          /\ backup' = m.backup
          /\ last' = Done("migrate", m.res, <<>>)
    /\ UNCHANGED <<procs, rev, today, members, borrows>>

\* the largest catalog the program is started on
MaxCatalog == 46

\* lengths of a cut-off final record
TailInputs == {0, 1, 90}

\* a catalog of k records as the program before the quantity field wrote
\* it, record m lent out and deleted
OldCatalog(k, m) ==
    [i \in 1..k |-> [NewBook7(Format04d(i), CHOOSE t \in Titles : TRUE) EXCEPT
                        !.status = IF i = m THEN "B" ELSE "A",
                        !.deleted = IF i = m THEN "1" ELSE "0"]]

\* a catalog of k records in the current layout, record m deleted
NewCatalog(k, m) ==
    [i \in 1..k |-> [NewBook(Format04d(i), CHOOSE t \in Titles : TRUE, MaxQty) EXCEPT
                        !.deleted = IF i = m THEN "1" ELSE "0"]]

\* the files a start of the program can find: a catalog in either layout,
\* whole or cut off, no members and no loans
InitCatalog ==
    /\ rev = "libsys"
    /\ today = 0
    /\ members = <<>>
    /\ borrows = <<>>
    /\ backup = <<>>
    /\ procs = NoWriter
    /\ \E k \in 0..MaxCatalog, t \in TailInputs, old \in BOOLEAN :
          /\ \E m \in {0, 1, k} :
                books = IF old THEN OldCatalog(k, m) ELSE NewCatalog(k, m)
          /\ tail = [NoTail EXCEPT !.books = IF k = 0 THEN 0 ELSE t]
    /\ last = Done("init", "ok", <<>>)

\* starts of the program, one after the other
NextMigrate == MigrateOldData \/ Tick

SpecMigrate == InitCatalog /\ [][NextMigrate]_vars

\* a catalog file that is k whole records of the layout without quantity
WholeOldCatalog(recs, tail_bytes) ==
    /\ Len(recs) >= 1
    /\ \A i \in 1..Len(recs) : IsOldBook(recs[i])
    /\ tail_bytes = 0

\* a catalog file that is whole records of the current layout
WholeNewCatalog(recs, tail_bytes) ==
    /\ Len(recs) >= 1
    /\ \A i \in 1..Len(recs) : ~IsOldBook(recs[i])
    /\ tail_bytes = 0

\* C13: a start on a catalog of k >= 1 whole records of the old layout
\* leaves k records of the current layout in the same order, each with
\* quantity 1 and its other fields as they were, and a backup that is the
\* original file
C13_MigrationConvertsEveryLegacyFile ==
    [][ (last'.op = "migrate" /\ WholeOldCatalog(books, tail.books)) =>
            /\ Len(books') = Len(books)
            /\ tail'.books = 0
            /\ \A i \in 1..Len(books) :
                  /\ ~IsOldBook(books'[i])
                  /\ Quantity(books'[i]) = 1
                  /\ \A f \in DOMAIN books[i] : books'[i][f] = books[i][f]
            /\ backup' = <<[recs |-> books, tail |-> 0]>>
      ]_vars

\* C14: a start on an empty catalog, on a catalog of whole current records
\* or on a catalog migrated before changes neither the catalog nor the
\* backup file
C14_MigrationIdempotent ==
    [][ (/\ last'.op = "migrate"
         /\ \/ CatalogSize(books, tail.books) = 0
            \/ WholeNewCatalog(books, tail.books)
            \/ last.res = "migrated") =>
            /\ books' = books
            /\ tail' = tail
            /\ backup' = backup
      ]_vars

\* a second start after a migration found the current layout, the backup of
\* the migration still there
C14_SecondStartAfterMigration ==
    /\ last.op = "migrate"
    /\ last.res = "current"
    /\ Len(books) >= 1
    /\ backup # <<>>
    /\ backup[1].recs # books

\* C15: on a catalog whose length is a multiple of neither 184 nor 180 a
\* start changes no file, writes no backup and only warns
C15_CorruptCatalogLeftAlone ==
    [][ (/\ last'.op = "migrate"
         /\ CatalogSize(books, tail.books) % 184 # 0
         /\ CatalogSize(books, tail.books) % 180 # 0) =>
            /\ books' = books
            /\ tail' = tail
            /\ backup' = backup
            /\ last'.res = "warning"
      ]_vars

\* a start that warned about a cut-off catalog of the old layout
C15_WarnedOnCutOffLegacyFile ==
    /\ last.op = "migrate"
    /\ last.res = "warning"
    /\ Len(books) >= 1
    /\ IsOldBook(books[1])
    /\ tail.books # 0
    /\ backup = <<>>

\* ------------------------------------------------ reading and rewriting
RECURSIVE ReadLoop(_, _, _, _, _)
\* while True: data = f.read(record_size) ... over a file of the whole
\* records recs followed by tail_bytes bytes; lenient tells the loop that
\* leaves at a short chunk from the loop that hands it to struct.unpack
ReadLoop(i, recs, tail_bytes, lenient, out) ==
    IF i <= Len(recs) THEN ReadLoop(i + 1, recs, tail_bytes, lenient, Append(out, recs[i]))
    ELSE IF tail_bytes = 0 THEN [res |-> "ok", ret |-> out]
    ELSE IF lenient THEN [res |-> "ok", ret |-> out]
    ELSE [res |-> "raised", ret |-> <<>>]

\* _get_all_books; FileManager.read_all_records on the catalog
ReadAllBooks ==
    /\ LET r == ReadLoop(1, books, tail.books, rev = "libsys", <<>>)
       IN last' = Done("read_books", r.res, r.ret)
    /\ UNCHANGED <<procs, rev, today, books, members, borrows, tail, backup>>

\* _get_all_members; FileManager.read_all_records on the members file
ReadAllMembers ==
    /\ LET r == ReadLoop(1, members, tail.members, FALSE, <<>>)
       IN last' = Done("read_members", r.res, r.ret)
    /\ UNCHANGED <<procs, rev, today, books, members, borrows, tail, backup>>

\* _get_all_borrows; FileManager.read_all_records on the loans file
ReadAllBorrows ==
    /\ LET r == ReadLoop(1, borrows, tail.borrows, FALSE, <<>>)
       IN last' = Done("read_borrows", r.res, r.ret)
    /\ UNCHANGED <<procs, rev, today, books, members, borrows, tail, backup>>

\* the three data files by name
Files == [books |-> books, members |-> members, borrows |-> borrows]

\* _update_record / FileManager.update_record called on the file name with
\* the position of a stored record and a packed record
RewriteAtWith(name, index, data) ==
    /\ index \in 1..Len(Files[name])
    /\ books' = IF name = "books" THEN UpdateRecord(books, index, data) ELSE books
    /\ members' = IF name = "members" THEN UpdateRecord(members, index, data) ELSE members
    /\ borrows' = IF name = "borrows" THEN UpdateRecord(borrows, index, data) ELSE borrows
    /\ last' = Done("update_record", name, <<index>>)
    /\ UNCHANGED <<procs, rev, today, tail, backup>>

\* the records a caller packs for a position of a file: the stored record
\* with its deleted flag set or cleared
PackedRecords(name, index) ==
    {[Files[name][index] EXCEPT !.deleted = d] : d \in {"0", "1"}}

RewriteAt ==
    \E name \in DOMAIN Files :
        \E index \in 1..Len(Files[name]) :
            \E data \in PackedRecords(name, index) :
                RewriteAtWith(name, index, data)

\* cut-off bytes at the end of a file that lost part of its last write
CutInputs == {0, 1}

\* data files as an earlier run left them, any of them possibly cut off
InitStore ==
    /\ rev \in Revisions
    /\ today = 0
    /\ backup = <<>>
    /\ procs = NoWriter
    /\ \E nb \in 0..MaxBooks, nm \in 0..MaxMembers, nl \in 0..MaxBorrows :
          /\ books = [i \in 1..nb |->
                         IF rev = "libsys"
                         THEN NewBook(Format04d(i), CHOOSE t \in Titles : TRUE, MaxQty)
                         ELSE NewBook7(Format04d(i), CHOOSE t \in Titles : TRUE)]
          /\ members = [i \in 1..nm |-> NewMember(Format04d(i), CHOOSE n \in Names : TRUE)]
          /\ borrows = [i \in 1..nl |->
                           NewBorrow(Format04d(i), Format04d(1), Format04d(1), today)]
    /\ tail \in [{"books", "members", "borrows"} -> CutInputs]
    /\ last = Done("init", "ok", <<>>)

NextStore == ReadAllBooks \/ ReadAllMembers \/ ReadAllBorrows \/ RewriteAt

SpecStore == InitStore /\ [][NextStore]_vars

\* C16: reading all records of a file whose last record is cut off does not
\* raise and returns the whole records before it, for the catalog, the
\* members file and the loans file in every revision
C16_ReadAllToleratesCutOffRecord ==
    /\ last.op = "read_books" => (last.res = "ok" /\ last.ret = books)
    /\ last.op = "read_members" => (last.res = "ok" /\ last.ret = members)
    /\ last.op = "read_borrows" => (last.res = "ok" /\ last.ret = borrows)

\* C17: rewriting the record at a position below the record count replaces
\* that record and nothing else: the other records, their order, the count
\* and the other files stay as they were
C17_RewriteReplacesOneRecord ==
    [][ last'.op = "update_record" =>
          \A name \in DOMAIN Files :
              \A index \in 1..Len(Files[name]) : \A data \in PackedRecords(name, index) :
                  RewriteAtWith(name, index, data) =>
                      /\ Len(Files'[name]) = Len(Files[name])
                      /\ Files'[name][index] = data
                      /\ \A j \in 1..Len(Files[name]) :
                            j # index => Files'[name][j] = Files[name][j]
                      /\ \A other \in DOMAIN Files :
                            other # name => Files'[other] = Files[other]
                      /\ tail' = tail
      ]_vars

\* the first of two member records rewritten, the second still behind it
C17_FirstOfTwoRewritten ==
    /\ last.op = "update_record"
    /\ last.res = "members"
    /\ last.ret = <<1>>
    /\ Len(members) = 2
    /\ members[1].deleted = "1"
    /\ members[2].deleted = "0"

\* --------------------------------------------------------- text on disk
\* str.encode('utf-8') of one character, given as its code point
Utf8Char(c) ==
    IF c < 128 THEN <<c>>
    ELSE IF c < 2048 THEN <<192 + (c \div 64), 128 + (c % 64)>>
    ELSE <<224 + (c \div 4096), 128 + ((c \div 64) % 64), 128 + (c % 64)>>

RECURSIVE Utf8Encode(_)
\* str.encode('utf-8')
Utf8Encode(text) ==
    IF Len(text) = 0 THEN <<>>
    ELSE Utf8Char(text[1]) \o Utf8Encode(SubSeq(text, 2, Len(text)))

\* a byte that continues a multi-byte character
IsContinuation(b) == b >= 128 /\ b < 192

RECURSIVE Utf8Decode(_, _)
\* bytes.decode('utf-8'): strict, a character cut off or out of place raises
\* UnicodeDecodeError
Utf8Decode(data, out) ==
    IF Len(data) = 0 THEN [ok |-> TRUE, text |-> out]
    ELSE LET b == data[1]
         IN IF b < 128
            THEN Utf8Decode(SubSeq(data, 2, Len(data)), Append(out, b))
            ELSE IF b >= 192 /\ b < 224
            THEN IF Len(data) >= 2 /\ IsContinuation(data[2])
                 THEN Utf8Decode(SubSeq(data, 3, Len(data)),
                                 Append(out, (b - 192) * 64 + (data[2] - 128)))
                 ELSE [ok |-> FALSE, text |-> <<>>]
            ELSE IF b >= 224 /\ b < 240
            THEN IF Len(data) >= 3 /\ IsContinuation(data[2]) /\ IsContinuation(data[3])
                 THEN Utf8Decode(SubSeq(data, 4, Len(data)),
                                 Append(out, (b - 224) * 4096 + (data[2] - 128) * 64
                                                + (data[3] - 128)))
                 ELSE [ok |-> FALSE, text |-> <<>>]
            ELSE [ok |-> FALSE, text |-> <<>>]

\* encode_string / _encode_string on a text of any characters
encode_string(text, length) == EncodeString(Utf8Encode(text), length)

\* decode_string / _decode_string: the text, or the error raised
decode_string(data) ==
    LET d == Utf8Decode(data, <<>>)
    IN IF d.ok THEN [res |-> "ok", text |-> DecodeString(d.text)]
       ELSE [res |-> "raised", text |-> <<>>]

\* the longest text typed into a field, in characters
MaxText == 21

\* the characters typed, as code points: a Latin letter and a Thai letter
Letters == {97, 3585}

\* the texts typed into a field: a run of one letter, then a run of the other
Texts ==
    {[k \in 1..(p[1] + p[2]) |-> IF k <= p[1] THEN first ELSE second] :
        p \in {q \in (0..MaxText) \X (0..MaxText) : q[1] + q[2] <= MaxText},
        first \in Letters, second \in Letters}

\* the widths of the narrowest fields typed into: phone and isbn
FieldWidths == {MemberFormat[4], BookFormat[4]}

\* a text typed at a prompt, about to be packed into a field
InitCodec ==
    /\ rev \in Revisions
    /\ today = 0
    /\ books = <<>>
    /\ members = <<>>
    /\ borrows = <<>>
    /\ tail = NoTail
    /\ backup = <<>>
    /\ procs = NoWriter
    /\ \E text \in Texts, length \in FieldWidths :
          last = Done("typed", "ok", [text |-> text, length |-> length])

\* the field is packed for the record
EncodeField ==
    /\ last.op = "typed"
    /\ last' = Done("encode_string", "ok",
                    [text |-> last.ret.text, length |-> last.ret.length,
                     data |-> encode_string(last.ret.text, last.ret.length)])
    /\ UNCHANGED <<procs, rev, today, books, members, borrows, tail, backup>>

\* the field is read back for a listing
DecodeField ==
    /\ last.op = "encode_string"
    /\ LET d == decode_string(last.ret.data)
       IN last' = Done("decode_string", d.res,
                       [text |-> last.ret.text, length |-> last.ret.length,
                        data |-> last.ret.data, out |-> d.text])
    /\ UNCHANGED <<procs, rev, today, books, members, borrows, tail, backup>>

NextCodec == EncodeField \/ DecodeField

SpecCodec == InitCodec /\ [][NextCodec]_vars

\* C21: a text of at most the field's width in characters is read back as it
\* was typed; a longer text is packed into exactly width bytes and is still
\* read back without an error
C21_TextRoundTrip ==
    /\ last.op = "encode_string" => Len(last.ret.data) = last.ret.length
    /\ last.op = "decode_string" =>
          /\ last.res = "ok"
          /\ Len(last.ret.text) <= last.ret.length => last.ret.out = last.ret.text

\* ------------------------------------------------- the list of free books
RECURSIVE AvailableBooksFromAnyFlag(_, _, _, _)
\* faulty variant: deleted books are listed too
AvailableBooksFromAnyFlag(i, bks, bs, available_books) ==
    IF i > Len(bks) THEN available_books
    ELSE LET book == bks[i]
             book_id == DecodeString(book.id)
             total_quantity == Quantity(book)
             borrowed_quantity == GetBorrowedQuantity(bs, book_id)
             available_quantity == total_quantity - borrowed_quantity
         IN IF available_quantity > 0
            THEN AvailableBooksFromAnyFlag(i + 1, bks, bs,
                     Append(available_books,
                            [book_id |-> book_id, title |-> book.title,
                             author |-> book.author,
                             available_quantity |-> available_quantity,
                             total_quantity |-> total_quantity,
                             borrowed_quantity |-> borrowed_quantity]))
            ELSE AvailableBooksFromAnyFlag(i + 1, bks, bs, available_books)

RECURSIVE AvailableBooksFrom(_, _, _, _)
\* the loop of _get_available_books_for_borrow over the catalog, from
\* position i on: the tuples it appends
AvailableBooksFrom(i, bks, bs, available_books) ==
    IF i > Len(bks) THEN available_books
    ELSE LET book == bks[i]
             book_id == DecodeString(book.id)
             total_quantity == Quantity(book)
             borrowed_quantity == GetBorrowedQuantity(bs, book_id)
             available_quantity == total_quantity - borrowed_quantity
         IN IF book.deleted = "0" /\ available_quantity > 0
            THEN AvailableBooksFrom(i + 1, bks, bs,
                     Append(available_books,
                            [book_id |-> book_id, title |-> book.title,
                             author |-> book.author,
                             available_quantity |-> available_quantity,
                             total_quantity |-> total_quantity,
                             borrowed_quantity |-> borrowed_quantity]))
            ELSE AvailableBooksFrom(i + 1, bks, bs, available_books)

\* add_borrow left at the prompt for the book: the sweep has run, the member
\* was found and is not suspended, and the list of free books was shown
ListAvailableWith(member_id) ==
    LET swept == CheckAndBanOverdueMembers(members, borrows, today)
        member_index == FindIndexById(swept.members, member_id)
    IN /\ rev = "libsys"
       /\ member_index # 0
       /\ swept.members[member_index].status # "S"
       /\ members' = swept.members
       /\ last' = Done("list_available", "ok", AvailableBooksFrom(1, books, borrows, <<>>))
       /\ UNCHANGED <<procs, rev, today, books, borrows, tail, backup>>

ListAvailable == \E member_id \in IdInputs(MaxMembers) : ListAvailableWith(member_id)

\* the largest catalog the list is drawn from
MaxShelf == 3

\* catalogs of n books with ids in file order, any quantities and flags
Shelves ==
    UNION {{[i \in 1..n |-> [NewBook(Format04d(i), CHOOSE t \in Titles : TRUE, q[i])
                                EXCEPT !.deleted = d[i]]] :
               q \in [1..n -> 1..MaxQty], d \in [1..n -> {"0", "1"}]} :
           n \in 0..MaxShelf}

\* loans files of n loans of the second member on any books, open or
\* returned, kept or deleted
LoanFiles ==
    UNION {{[i \in 1..n |-> [NewBorrow(Format04d(i), Format04d(b[i]), Format04d(2), 0)
                                EXCEPT !.status = st[i], !.deleted = d[i]]] :
               b \in [1..n -> 1..MaxShelf], st \in [1..n -> {"B", "R"}],
               d \in [1..n -> {"0", "1"}]} :
           n \in 0..MaxBorrows}

\* the files of a library in use: a catalog, two members, loans of the second
InitShelf ==
    /\ rev = "libsys"
    /\ today = 0
    /\ books \in Shelves
    /\ members = [i \in 1..MaxMembers |-> NewMember(Format04d(i), CHOOSE n \in Names : TRUE)]
    /\ borrows \in LoanFiles
    /\ tail = NoTail
    /\ backup = <<>>
    /\ procs = NoWriter
    /\ last = Done("init", "ok", <<>>)

NextShelf == ListAvailable \/ DeleteBook \/ DeleteBorrow \/ Tick

SpecShelf == InitShelf /\ [][NextShelf]_vars

\* the position of the k-th book a member can pick, in file order
KthEligible(k) ==
    CHOOSE i \in Eligible(books, borrows) :
        Cardinality({j \in Eligible(books, borrows) : j <= i}) = k

AppendRecordRenumbered(file, data) ==
    Append(file, [data EXCEPT !.id = EncodeString(GetNextId(file), IdWidth)])

\* FileManager.append_record: open(filename, 'ab'), write
AppendRecord(file, data) == Append(file, data)

\* the most records the members file holds while two processes write to it
MaxAppends == 4

\* MemberManager.add_member, first half: process p reads the next id off the
\* last record of the file as it is now
ReadNextId(p) ==
    /\ procs[p].pc = "idle"
    /\ Len(members) < MaxAppends
    /\ procs' = [procs EXCEPT ![p] = [pc |-> "packed",
                                      member_id |-> GetNextId(members),
                                      seen |-> Len(members)]]
    /\ last' = Done("get_next_id", "ok", <<p>>)
    /\ UNCHANGED <<rev, today, books, members, borrows, tail, backup>>

\* MemberManager.add_member, second half: process p appends the record it
\* packed with the id it read
AppendMember(p) ==
    /\ procs[p].pc = "packed"
    /\ \E name \in Names :
          members' = AppendRecord(members, NewMember(procs[p].member_id, name))
    /\ procs' = [procs EXCEPT ![p].pc = "idle"]
    /\ last' = Done("append_record", "ok", <<p>>)
    /\ UNCHANGED <<rev, today, books, borrows, tail, backup>>

\* a members file written by one process so far
InitTwoWriters ==
    /\ rev = "mod"
    /\ today = 0
    /\ books = <<>>
    /\ \E n \in 0..MaxMembers :
          members = [i \in 1..n |-> NewMember(Format04d(i), CHOOSE m \in Names : TRUE)]
    /\ borrows = <<>>
    /\ tail = NoTail
    /\ backup = <<>>
    /\ procs = NoWriter
    /\ last = Done("init", "ok", <<>>)

NextTwoWriters == \E p \in Writers : ReadNextId(p) \/ AppendMember(p)

SpecTwoWriters == InitTwoWriters /\ [][NextTwoWriters]_vars

\* C23: a create appends the id it read, one more than the id of the record
\* that was last when it read, whatever the other process has appended in
\* the meantime; so with the reads of two creates before either append, both
\* appended records carry the same id
C23_CreateAppendsTheIdItRead ==
    [][ last'.op = "append_record" =>
          \A p \in Writers :
              (procs[p].pc = "packed" /\ procs'[p].pc = "idle") =>
                  /\ Len(members') = Len(members) + 1
                  /\ SubSeq(members', 1, Len(members)) = members
                  /\ members'[Len(members')].id
                        = IF procs[p].seen = 0 THEN PaddedId(1)
                          ELSE PaddedId(ParseInt(members[procs[p].seen].id) + 1)
      ]_vars

\* both processes have appended a record, one straight after the other, and
\* the two records carry the same id
C23_TwoRecordsOneId ==
    /\ last.op = "append_record"
    /\ \A p \in Writers : procs[p].pc = "idle"
    /\ Len(members) >= 2
    /\ members[Len(members)].id = members[Len(members) - 1].id

\* C24: in libsys a member's stored status goes from ACTIVE to SUSPENDED
\* only in the overdue sweep, run on its own or at the start of a borrow, and
\* from SUSPENDED to ACTIVE only in a return; no other operation changes the
\* status of any member
C24_StatusChangesOnlyInSweepAndReturn ==
    [][ /\ Len(members') >= Len(members)
        /\ \A k \in 1..Len(members) :
              members'[k].status # members[k].status =>
                  \/ /\ members[k].status = "A"
                     /\ members'[k].status = "S"
                     /\ last'.op \in {"sweep", "add_borrow"}
                     /\ DecodeString(members[k].id) \in Range(last'.ret)
                  \/ /\ members[k].status = "S"
                     /\ members'[k].status = "A"
                     /\ last'.op = "return_book"
      ]_vars

\* a loan of a SUSPENDED member was deleted, leaving them with no overdue
\* loan, and the member is still SUSPENDED
C24_SuspendedAfterLoanDeleted ==
    /\ rev = "libsys"
    /\ last.op = "delete_borrow"
    /\ \E k \in 1..Len(members) :
          /\ members[k].deleted = "0"
          /\ members[k].status = "S"
          /\ ~HoldsOverdue(borrows, members[k].id, today)

\* ------------------------------------------------------ the overdue test
\* BorrowManager.has_overdue_books
HasOverdueBooks(bs, member_id, current_date) ==
    \E i \in 1..Len(bs) :
        /\ DecodeString(bs[i].member_id) = member_id
        /\ IsOpen(bs[i])
        /\ IsOverdue(bs[i], current_date)

\* BorrowManager.has_overdue_books called on its own with any member id
ModHasOverdueBooks ==
    /\ rev = "mod"
    /\ \E member_id \in IdInputs(MaxMembers) :
          last' = Done("has_overdue_books",
                       IF HasOverdueBooks(borrows, member_id, today) THEN "yes" ELSE "no",
                       <<member_id>>)
    /\ UNCHANGED <<rev, today, books, members, borrows, tail, backup, procs>>

\* lending, returning and the overdue checks of the three revisions
NextOverdue ==
    \/ Tick
    \/ Sweep
    \/ AddBook
    \/ AddBook7
    \/ AddMember
    \/ AddBorrow
    \/ ReturnBook
    \/ DeleteBorrow
    \/ MonoAddBorrow
    \/ MonoReturnBook
    \/ ModBorrowBooksUI
    \/ ModReturnBook
    \/ ModHasOverdueBooks

SpecOverdue == Init /\ [][NextOverdue]_vars

\* the member with this id field holds an open non-deleted loan borrowed
\* more than 7 days before day
BorrowedOverSevenDaysAgo(bs, member_id, day) ==
    \E i \in 1..Len(bs) :
        /\ OpenLoan(bs[i])
        /\ bs[i].member_id = member_id
        /\ day - bs[i].borrow_date > 7

\* C25: the sweep, has_overdue_books and the reinstatement check of a return
\* treat an open loan as overdue exactly when today - borrow_date > 7 days:
\* the sweep suspends a member only for such a loan and leaves no listed
\* member holding one ACTIVE, has_overdue_books answers yes exactly for such
\* a loan, and a return that reaches its check reinstates a SUSPENDED member
\* exactly when no such loan is left
C25_OverdueAfterSevenDays ==
    [][ /\ last'.op \in {"sweep", "add_borrow"} =>
              \A k \in 1..Len(members) :
                  /\ (members[k].status = "A" /\ members'[k].status = "S")
                        => BorrowedOverSevenDaysAgo(borrows, members[k].id, today)
                  /\ (members[k].deleted = "0"
                        /\ BorrowedOverSevenDaysAgo(borrows, members[k].id, today))
                        => members'[k].status = "S"
        /\ last'.op = "has_overdue_books" =>
              (last'.res = "yes"
                 <=> BorrowedOverSevenDaysAgo(borrows, EncodeString(last'.ret[1], IdWidth), today))
        /\ (last'.op = "return_book" /\ last'.res = "ok" /\ rev \in {"libsys", "mono"}) =>
              \A i \in 1..Len(borrows) :
                  (borrows[i].status = "B" /\ borrows'[i].status = "R") =>
                      \A k \in LiveMembers(members, borrows[i].member_id) :
                          members[k].status = "S" =>
                              (members'[k].status = "A"
                                 <=> ~BorrowedOverSevenDaysAgo(borrows', members[k].id, today))
      ]_vars

\* a return has reinstated a member who still holds a loan borrowed exactly
\* 7 days ago, after giving back one borrowed 8 days ago
C25_ReinstatedWithLoanOnItsDueDate ==
    /\ last.op = "return_book"
    /\ \E k \in 1..Len(members) :
          /\ members[k].deleted = "0"
          /\ members[k].status = "A"
          /\ \E i, j \in 1..Len(borrows) :
                /\ borrows[i].member_id = members[k].id
                /\ OpenLoan(borrows[i])
                /\ today - borrows[i].borrow_date = 7
                /\ borrows[j].member_id = members[k].id
                /\ borrows[j].status = "R"
                /\ borrows[j].return_date = today
                /\ today - borrows[j].borrow_date = 8

\* C26: a return of n copies of one item by one member in libsys changes the
\* return date and the status of exactly n of that member's open non-deleted
\* loans of that item and nothing else: their other fields, every other loan
\* and the catalog stay as they were
C26_ReturnTouchesOnlyTheLoansReturned ==
    [][ (rev = "libsys" /\ last'.op = "return_book") =>
          \A member_id \in IdInputs(MaxMembers), choice \in 1..MaxBooks,
             return_choice \in ReturnChoices :
              ReturnBookWith(member_id, choice, return_choice) =>
                  LET changed == {i \in 1..Len(borrows) : borrows'[i] # borrows[i]}
                      mine(book_id) == {i \in 1..Len(borrows) :
                                          /\ OpenLoan(borrows[i])
                                          /\ borrows[i].member_id = EncodeString(member_id, IdWidth)
                                          /\ borrows[i].book_id = book_id}
                  IN /\ Len(borrows') = Len(borrows)
                     /\ books' = books
                     /\ \E i \in 1..Len(borrows) :
                           /\ changed \subseteq mine(borrows[i].book_id)
                           /\ Cardinality(changed)
                                 = IF return_choice.all
                                   THEN Cardinality(mine(borrows[i].book_id))
                                   ELSE return_choice.count
                     /\ \A i \in changed :
                           borrows'[i] = [borrows[i] EXCEPT !.return_date = today,
                                                            !.status = "R"]
      ]_vars

\* one of two copies a member holds of an item has been returned on a later
\* day, the other is still out
C26_OneOfTwoCopiesReturned ==
    /\ rev = "libsys"
    /\ last.op = "return_book"
    /\ \E i, j \in 1..Len(borrows) :
          /\ borrows[i].member_id = borrows[j].member_id
          /\ borrows[i].book_id = borrows[j].book_id
          /\ borrows[i].status = "R"
          /\ borrows[i].return_date = today
          /\ borrows[i].borrow_date < today
          /\ OpenLoan(borrows[j])

\* C27: once the deleted flag of a record is set, no operation clears it,
\* changes any field of the record or removes it: the record stays as it is
\* at its position in the file, for items, members and loans
C27_DeletedRecordFrozen ==
    [][ /\ \A i \in 1..Len(books) :
              books[i].deleted = "1" => (i <= Len(books') /\ books'[i] = books[i])
        /\ \A i \in 1..Len(members) :
              members[i].deleted = "1" => (i <= Len(members') /\ members'[i] = members[i])
        /\ \A i \in 1..Len(borrows) :
              borrows[i].deleted = "1" => (i <= Len(borrows') /\ borrows'[i] = borrows[i])
      ]_vars

\* a return has closed a loan of a member and an item while an open loan of
\* the same member and item, deleted before, is still open and deleted
C27_ReturnPassedOverDeletedLoan ==
    /\ last.op = "return_book"
    /\ \E i, j \in 1..Len(borrows) :
          /\ borrows[i].deleted = "1"
          /\ borrows[i].status = "B"
          /\ borrows[j].member_id = borrows[i].member_id
          /\ borrows[j].book_id = borrows[i].book_id
          /\ borrows[j].deleted = "0"
          /\ borrows[j].status = "R"
          /\ borrows[j].return_date = today

\* C28: in libsys every non-deleted SUSPENDED member holds at least one
\* non-deleted open loan, so that a return can reinstate them
C28_SuspendedMemberHoldsOpenLoan ==
    rev = "libsys" =>
        \A k \in 1..Len(members) :
            (members[k].deleted = "0" /\ members[k].status = "S") =>
                \E i \in 1..Len(borrows) :
                    OpenLoan(borrows[i]) /\ borrows[i].member_id = members[k].id

\* C29: in libsys every non-deleted open loan can be returned: some answers
\* to the prompts of return_book close it
C29_OpenLoanCanBeReturned ==
    rev = "libsys" =>
        \A i \in 1..Len(borrows) :
            OpenLoan(borrows[i]) =>
                \E member_id \in IdInputs(MaxMembers), choice \in 1..MaxBooks,
                   return_choice \in ReturnChoices :
                    /\ ReturnBookValid(member_id, choice, return_choice)
                    /\ ReturnBookResult(member_id, choice, return_choice).borrows[i].status = "R"

\* C30: in library_system.py, between operations, a non-deleted book is
\* stored as BORROWED exactly when one non-deleted open loan references it,
\* and no book has more than one such loan
C30_BorrowedFlagMatchesOneOpenLoan ==
    rev = "mono" =>
        \A i \in 1..Len(books) :
            books[i].deleted = "0" =>
                /\ Cardinality(OpenLoansOf(borrows, books[i].id)) <= 1
                /\ books[i].status = "B"
                      <=> Cardinality(OpenLoansOf(borrows, books[i].id)) = 1

=============================================================================
